---- MODULE Spec2Model ----
(***************************************************************************)
(* A model of the regional decline indicator pipeline                      *)
(* (src/src/lib/fileProcessor.ts) and of the page that drives it           *)
(* (src/src/pages/Index.tsx).                                              *)
(*                                                                         *)
(* Strings of the program that carry numbers are modelled by what          *)
(* parseFloat makes of them: a cell is a record [k, n] whose kind k is     *)
(* "num" (a numeric string, n its value), "empty" (the string '') or       *)
(* "text" (a non-empty string parseFloat turns into NaN).  Years are       *)
(* 4-digit strings in the program; they are modelled by their numbers, so  *)
(* that the lexicographic order of Array.sort() is the numeric order.      *)
(* A percentage written with toFixed(2) is modelled by its number of       *)
(* hundredths (-4000 is "-40.00%").                                        *)
(***************************************************************************)
EXTENDS Integers, Sequences, FiniteSets, TLC

VARIABLES
    processedData,    \* fileProcessor.ts: the three slots of the module's cache
    runs,             \* the processFiles invocations in flight, each at its await
    activeIndicator,  \* Index.tsx: the tab shown
    pageFiles,        \* Index.tsx: populationFiles, industryFiles, environmentFiles
    uploaderFiles,    \* FileUploader.tsx: files, of the uploader of each category tab
    status,           \* Index.tsx: populationStatus, ..., summaryStatus
    pageResult,       \* Index.tsx: populationResult, ..., summaryResult
    pageError,        \* Index.tsx: populationError, ..., summaryError
    resetPending,     \* history: the categories reset and not run again since
    outputRows,       \* analyzer under test: the rows handed to the analyzer
    sortedYears,      \* analyzer under test: the sorted year headers
    analysed,         \* analyzer under test: which analyzer has run ("none" at first)
    inputRecords      \* analyzer under test: the parsed records the rows come from

libVars == <<processedData, runs>>

pageVars == <<activeIndicator, pageFiles, uploaderFiles, status, pageResult, pageError,
              resetPending>>

anaVars == <<outputRows, sortedYears, analysed, inputRecords>>

vars == <<processedData, runs, activeIndicator, pageFiles, uploaderFiles, status, pageResult,
          pageError, resetPending, outputRows, sortedYears, analysed, inputRecords>>

----------------------------------------------------------------------------
(* Bounds of the model *)

\* the year columns of the series the analyzers are run on
NumYears == 6

\* the processFiles invocations that may be in flight at once
MaxInFlight == 2

\* the rows of a cached category result the summary is run on
MaxRows == 2

\* the invocations the page has in flight at once
MaxPageRuns == 1

\* the year columns of the rows longer than the peak window
NumLongYears == 11

\* the parsed records handed to the environment analysis
MaxRecords == 3

----------------------------------------------------------------------------
(* Cells and rows *)

Num(n) == [k |-> "num", n |-> n]

EmptyStr == [k |-> "empty", n |-> 0]

Text == [k |-> "text", n |-> 0]

\* the year '' of maxYear / mostRecentYear before any year is found
NoYear == 0

\* isNaN(parseFloat(v))
IsNaN(v) == v.k # "num"

\* parseFloat(v) of a numeric string
ParseFloat(v) == v.n

\* row[`year_${year}`] is neither undefined nor ''
Truthy(row, year) == year \in DOMAIN row.values /\ row.values[year].k # "empty"

\* row[`year_${year}`] || '0'
OrZero(row, year) == IF Truthy(row, year) THEN row.values[year] ELSE Num(0)

\* Array.prototype.slice(-k)
SliceLast(s, k) == IF Len(s) <= k THEN s ELSE SubSeq(s, Len(s) - k + 1, Len(s))

\* x.toFixed(2) of the rational num/den (den > 0), in hundredths; the nearest
\* hundredth, a tie going away from zero
ToFixed2(num, den) ==
    IF num >= 0 THEN (200 * num + den) \div (2 * den)
    ELSE -((200 * (-num) + den) \div (2 * den))

----------------------------------------------------------------------------
(* analyzePopulationDecline and analyzeBusinessDecline *)

\* the forEach over the years that finds the maximum; acc = [max, year]
RECURSIVE PeakScan(_, _, _, _)
PeakScan(row, years, i, acc) ==
    IF i > Len(years) THEN acc
    ELSE LET value == OrZero(row, years[i])
         IN  IF ~IsNaN(value) /\ ParseFloat(value) > acc.max
             THEN PeakScan(row, years, i + 1, [max |-> ParseFloat(value), year |-> years[i]])
             ELSE PeakScan(row, years, i + 1, acc)

\* sortedYears.filter(year => row[yearKey] && !isNaN(parseFloat(row[yearKey])))
AvailableYears(row, years) ==
    LET HasData(y) == Truthy(row, y) /\ ~IsNaN(row.values[y])
    IN  SelectSeq(years, HasData)

\* the for loop over the recent years; st = [cur, max, declining]
RECURSIVE DeclineScan(_, _, _, _)
DeclineScan(row, recent, i, st) ==
    IF i > Len(recent) THEN st
    ELSE LET current == ParseFloat(OrZero(row, recent[i]))
             prev == ParseFloat(OrZero(row, recent[i - 1]))
         IN  IF current < prev
             THEN DeclineScan(row, recent, i + 1,
                     [cur |-> st.cur + 1,
                      max |-> IF st.cur + 1 > st.max THEN st.cur + 1 ELSE st.max,
                      declining |-> st.declining \cup {recent[i]}])
             ELSE DeclineScan(row, recent, i + 1, [st EXCEPT !.cur = 0])

\* the number of most recent years with data the consecutive-decline check looks at
RecentWindow == 5

\* the number of most recent year columns the business peak is taken over
PeakWindow == 10

\* maxPopulation > 0, without the test of the most recent value
RateComputedAnyRecent(max, recent) == max > 0

\* maxPopulation > 0 && mostRecentPopulation > 0
RateComputed(max, recent) == max > 0 /\ recent > 0

\* the decline rate, a rational [num, den] with den > 0: ((recent - max) / max) * 100
DeclineRateOf(max, recent) == [num |-> 100 * (recent - max), den |-> max]

ZeroRate == [num |-> 0, den |-> 1]

\* declineRate <= -20
HasDecline20PctStrict(rate) == rate.num < -20 * rate.den

HasDecline20Pct(rate) == rate.num <= -20 * rate.den

\* the test, were it made on the rate as written with toFixed(2)
HasDecline5PctAsWritten(rate) == ToFixed2(rate.num, rate.den) <= -500

\* declineRate <= -5
HasDecline5Pct(rate) == rate.num <= -5 * rate.den

\* maxConsecutiveDeclines >= 2 ? 'O' : 'X'
ConsecutiveFlagAtLeast3(maxConsecutiveDeclines) ==
    IF maxConsecutiveDeclines >= 3 THEN "O" ELSE "X"

ConsecutiveFlag(maxConsecutiveDeclines) ==
    IF maxConsecutiveDeclines >= 2 THEN "O" ELSE "X"

Flag(b) == IF b THEN "O" ELSE "X"

\* the string x.toFixed(2) + '%', x given in hundredths
Pct(h) == [h |-> h, text |-> "fixed2"]

\* the literal '0%' the summary writes for a category a region is absent from
ZeroPctLiteral == [h |-> 0, text |-> "0%"]

\* the body of analyzePopulationDecline's forEach: the row with its analysis written in
AnalyzePopulationRow(row, years) ==
    LET peak == PeakScan(row, years, 1, [max |-> 0, year |-> NoYear])
        availableYears == AvailableYears(row, years)
        mostRecentYear ==
            IF Len(availableYears) > 0 THEN availableYears[Len(availableYears)] ELSE NoYear
        mostRecentPopulation ==
            IF mostRecentYear # NoYear THEN ParseFloat(OrZero(row, mostRecentYear)) ELSE 0
        declineRate ==
            IF RateComputed(peak.max, mostRecentPopulation)
            THEN DeclineRateOf(peak.max, mostRecentPopulation)
            ELSE ZeroRate
        recentYears == SliceLast(availableYears, RecentWindow)
        scan == DeclineScan(row, recentYears, 2, [cur |-> 0, max |-> 0, declining |-> {}])
    IN  [region_code |-> row.region_code,
         values |-> row.values,
         isMax |-> IF peak.year # NoYear THEN {peak.year} ELSE {},
         declining |-> scan.declining,
         declineRate |-> declineRate,
         DeclineRate |-> Pct(ToFixed2(declineRate.num, declineRate.den)),
         Decline_20pct |-> Flag(HasDecline20Pct(declineRate)),
         ConsecutiveDecline |-> ConsecutiveFlag(scan.max)]

analyzePopulationDecline(rows, years) ==
    [i \in 1..Len(rows) |-> AnalyzePopulationRow(rows[i], years)]

\* the body of analyzeBusinessDecline's forEach
AnalyzeBusinessRow(row, years) ==
    LET recentYears == SliceLast(years, PeakWindow)
        peak == PeakScan(row, recentYears, 1, [max |-> 0, year |-> NoYear])
        availableYears == AvailableYears(row, years)
        mostRecentYear ==
            IF Len(availableYears) > 0 THEN availableYears[Len(availableYears)] ELSE NoYear
        mostRecentValue ==
            IF mostRecentYear # NoYear THEN ParseFloat(OrZero(row, mostRecentYear)) ELSE 0
        declineRate ==
            IF RateComputed(peak.max, mostRecentValue) /\ peak.year # mostRecentYear
            THEN DeclineRateOf(peak.max, mostRecentValue)
            ELSE ZeroRate
        recent5Years == SliceLast(availableYears, RecentWindow)
        scan == DeclineScan(row, recent5Years, 2, [cur |-> 0, max |-> 0, declining |-> {}])
    IN  [region_code |-> row.region_code,
         values |-> row.values,
         isMax |-> IF peak.year # NoYear THEN {peak.year} ELSE {},
         declining |-> scan.declining,
         declineRate |-> declineRate,
         BusinessDeclineRate |-> Pct(ToFixed2(declineRate.num, declineRate.den)),
         BusinessDeclineOver5pct |-> Flag(HasDecline5Pct(declineRate)),
         BusinessConsecDecline |-> ConsecutiveFlag(scan.max)]

analyzeBusinessDecline(rows, years) ==
    [i \in 1..Len(rows) |-> AnalyzeBusinessRow(rows[i], years)]

----------------------------------------------------------------------------
(* Files, parseFileContent, the category filters and the pivot *)

\* A file's text is a sequence of lines, a line the sequence of its parts
\* between '^': a year, a region code, a data code and a value cell.  A line
\* that is empty or blank has no part.

\* parts[i] || '' : the part, or the empty string of its place
YearPart(line) == IF Len(line) >= 1 THEN line[1] ELSE NoYear

RegionPart(line) == IF Len(line) >= 2 THEN line[2] ELSE ""

CodePart(line) == IF Len(line) >= 3 THEN line[3] ELSE ""

ValuePart(line) == IF Len(line) >= 4 THEN line[4] ELSE EmptyStr

\* line.trim().length > 0
NotBlank(line) == Len(line) > 0

parseFileContent(content) ==
    LET lines == SelectSeq(content, NotBlank)
    IN  [i \in 1..Len(lines) |->
            [year |-> YearPart(lines[i]),
             region_code |-> RegionPart(lines[i]),
             data_code |-> CodePart(lines[i]),
             value |-> ValuePart(lines[i])]]

\* the data codes of the building age family: data_code.startsWith('ho_yr_')
BuildingAgeCodes == {"ho_yr_001", "ho_yr_002", "ho_yr_003", "ho_yr_004", "ho_yr_005"}

\* ['ho_yr_001', 'ho_yr_002', 'ho_yr_003', 'ho_yr_004']
OldBuildingCodes == {"ho_yr_001", "ho_yr_002", "ho_yr_003", "ho_yr_004"}

\* the year '2023' of the building age records
ReferenceYear == 2023

\* dataCodeFilter
DataCodeFilter(indicatorType) ==
    IF indicatorType = "population" THEN "to_in_001"
    ELSE IF indicatorType = "industry" THEN "to_fa_010"
    ELSE ""

\* records.filter(...) of one file, by indicator type
FilterRecords(records, indicatorType) ==
    LET KeepEnvironment(record) ==
            record.year = ReferenceYear /\ record.data_code \in BuildingAgeCodes
        KeepByCode(record) == record.data_code = DataCodeFilter(indicatorType)
    IN  IF indicatorType = "environment"
        THEN SelectSeq(records, KeepEnvironment)
        ELSE SelectSeq(records, KeepByCode)

\* the position of the row of a region in a sequence of rows, 0 when there is none
IndexOfRegion(rows, regionCode) ==
    IF \E i \in 1..Len(rows) : rows[i].region_code = regionCode
    THEN CHOOSE i \in 1..Len(rows) : rows[i].region_code = regionCode
    ELSE 0

\* allRecords.forEach(record => ...) filling pivotMap, a Map in insertion order
RECURSIVE PivotRows(_, _, _)
PivotRows(allRecords, i, rows) ==
    IF i > Len(allRecords) THEN rows
    ELSE LET record == allRecords[i]
             at == IndexOfRegion(rows, record.region_code)
             withRow ==
                 IF at = 0
                 THEN Append(rows, [region_code |-> record.region_code, values |-> <<>>])
                 ELSE rows
             k == IF at = 0 THEN Len(withRow) ELSE at
         IN  PivotRows(allRecords, i + 1,
                 [withRow EXCEPT ![k].values = (record.year :> record.value) @@ @])

\* Array.from(years).sort()
RECURSIVE SortedSeqOf(_)
SortedSeqOf(S) ==
    IF S = {} THEN <<>>
    ELSE LET m == CHOOSE x \in S : \A y \in S : x <= y
         IN  <<m>> \o SortedSeqOf(S \ {m})

\* the years of the records in the order of their first record
RECURSIVE YearOrder(_, _, _)
YearOrder(allRecords, i, order) ==
    IF i > Len(allRecords) THEN order
    ELSE IF \E j \in 1..Len(order) : order[j] = allRecords[i].year
         THEN YearOrder(allRecords, i + 1, order)
         ELSE YearOrder(allRecords, i + 1, Append(order, allRecords[i].year))

\* Array.from(years)
YearsInReadOrder(allRecords) == YearOrder(allRecords, 1, <<>>)

\* Array.from(years).sort()
YearsOf(allRecords) == SortedSeqOf({allRecords[i].year : i \in 1..Len(allRecords)})

\* the rows a population or industry run stores in processedData
PivotAndAnalyze(allRecords, indicatorType) ==
    LET rows == PivotRows(allRecords, 1, <<>>)
    IN  IF indicatorType = "population"
        THEN analyzePopulationDecline(rows, YearsOf(allRecords))
        ELSE analyzeBusinessDecline(rows, YearsOf(allRecords))

----------------------------------------------------------------------------
(* processEnvironmentData: the rows of the building age analysis *)

\* parseInt(record.value, 10) is a number
IsInt(v) == v.k = "num"

\* the regions of the records in the order of their first record (regionMap)
RECURSIVE RegionOrder(_, _, _)
RegionOrder(records, i, order) ==
    IF i > Len(records) THEN order
    ELSE IF \E j \in 1..Len(order) : order[j] = records[i].region_code
         THEN RegionOrder(records, i + 1, order)
         ELSE RegionOrder(records, i + 1, Append(order, records[i].region_code))

\* the sums over a region's records; acc = [total, old]
RECURSIVE SumBuildings(_, _, _, _)
SumBuildings(records, regionCode, i, acc) ==
    IF i > Len(records) THEN acc
    ELSE LET record == records[i]
         IN  IF record.region_code = regionCode /\ IsInt(record.value)
             THEN SumBuildings(records, regionCode, i + 1,
                     [total |-> acc.total + record.value.n,
                      old |-> IF record.data_code \in OldBuildingCodes
                              THEN acc.old + record.value.n ELSE acc.old])
             ELSE SumBuildings(records, regionCode, i + 1, acc)

\* stands for NaN, the value of parseInt(undefined)
NotANumber == -1

\* oldBuildingPercentage > 50
MeetsOldBuildingCriterionStrict(total, old) == total > 0 /\ 100 * old > 50 * total

\* oldBuildingPercentage >= 50
MeetsOldBuildingCriterion(total, old) == total > 0 /\ 100 * old >= 50 * total

EnvironmentRow(records, regionCode) ==
    LET sums == SumBuildings(records, regionCode, 1, [total |-> 0, old |-> 0])
    IN  [region_code |-> regionCode,
         total_buildings |-> sums.total,
         old_buildings |-> sums.old,
         old_building_percentage |->
             IF sums.total > 0 THEN Pct(ToFixed2(100 * sums.old, sums.total)) ELSE Pct(0),
         old_building_criterion |-> Flag(MeetsOldBuildingCriterion(sums.total, sums.old))]

EnvironmentRows(records) ==
    LET order == RegionOrder(records, 1, <<>>)
    IN  [i \in 1..Len(order) |-> EnvironmentRow(records, order[i])]

\* the rows a successful run of a category stores in processedData
CategoryRows(allRecords, indicatorType) ==
    IF indicatorType = "environment"
    THEN EnvironmentRows(allRecords)
    ELSE PivotAndAnalyze(allRecords, indicatorType)

----------------------------------------------------------------------------
(* processedData and processAllIndicators *)

Categories == {"population", "industry", "environment"}

Indicators == Categories \cup {"summary"}

\* a slot of processedData: null, or the rows a run stored
Null == [isNull |-> TRUE, rows |-> <<>>]

Stored(rows) == [isNull |-> FALSE, rows |-> rows]

\* a ProcessingResult; has = the optional keys the object carries
Failure(message) ==
    [success |-> FALSE, message |-> message, has |-> {},
     blobUrl |-> "", previewData |-> [headers |-> <<>>, rows |-> <<>>], excelBlob |-> <<>>]

Success(message, blobUrl, previewData, excelBlob) ==
    [success |-> TRUE, message |-> message, has |-> {"blobUrl", "previewData", "excelBlob"},
     blobUrl |-> blobUrl, previewData |-> previewData, excelBlob |-> excelBlob]

\* the message of the failure when a slot is null
MissingMessageNaming(cache) ==
    IF cache["population"].isNull THEN "Please process the population indicator first"
    ELSE IF cache["industry"].isNull THEN "Please process the industry indicator first"
    ELSE "Please process the environment indicator first"

MissingMessage(cache) == "Please process all three indicators before generating a summary"

\* a summary row of a region that no category has yet
DefaultSummaryRow(regionCode) ==
    [region_code |-> regionCode,
     population_decline_rate_pct |-> ZeroPctLiteral,
     population_decline_rate |-> "X",
     population_consecutive_decline |-> "X",
     population_category_met |-> "X",
     industry_decline_rate_pct |-> ZeroPctLiteral,
     industry_decline_rate |-> "X",
     industry_consecutive_decline |-> "X",
     industry_category_met |-> "X",
     environment_old_building_pct |-> ZeroPctLiteral,
     environment_old_building |-> "X",
     environment_category_met |-> "X",
     total_categories_met |-> 0]

\* if (met === 'O') total_categories_met += 1
AddIfMetAlways(total, met) == total + 1

AddIfMet(total, met) == IF met = "O" THEN total + 1 ELSE total

\* regionsMap.set(regionCode, row) of a Map that would keep every entry
MapSetAppending(map, row) == Append(map, row)

\* regionsMap.set(regionCode, row): in place when the key exists, else at the end
MapSet(map, row) ==
    LET at == IndexOfRegion(map, row.region_code)
    IN  IF at = 0 THEN Append(map, row) ELSE [map EXCEPT ![at] = row]

\* (a === 'O' || b === 'O') ? 'O' : 'X'
EitherMetBoth(a, b) == IF a = "O" /\ b = "O" THEN "O" ELSE "X"

EitherMet(a, b) == IF a = "O" \/ b = "O" THEN "O" ELSE "X"

\* processedData.population.forEach(row => ...)
RECURSIVE AddPopulation(_, _, _)
AddPopulation(rows, i, map) ==
    IF i > Len(rows) THEN map
    ELSE LET row == rows[i]
             met == EitherMet(row.Decline_20pct, row.ConsecutiveDecline)
         IN  AddPopulation(rows, i + 1,
                 MapSet(map,
                     [DefaultSummaryRow(row.region_code) EXCEPT
                         !.population_decline_rate_pct = row.DeclineRate,
                         !.population_decline_rate = row.Decline_20pct,
                         !.population_consecutive_decline = row.ConsecutiveDecline,
                         !.population_category_met = met,
                         !.total_categories_met = AddIfMet(0, met)]))

\* processedData.industry.forEach(row => ...)
RECURSIVE AddIndustry(_, _, _)
AddIndustry(rows, i, map) ==
    IF i > Len(rows) THEN map
    ELSE LET row == rows[i]
             met == EitherMet(row.BusinessDeclineOver5pct, row.BusinessConsecDecline)
             at == IndexOfRegion(map, row.region_code)
             base == IF at = 0 THEN DefaultSummaryRow(row.region_code) ELSE map[at]
         IN  AddIndustry(rows, i + 1,
                 MapSet(map,
                     [base EXCEPT
                         !.industry_decline_rate_pct = row.BusinessDeclineRate,
                         !.industry_decline_rate = row.BusinessDeclineOver5pct,
                         !.industry_consecutive_decline = row.BusinessConsecDecline,
                         !.industry_category_met = met,
                         !.total_categories_met = AddIfMet(@, met)]))

\* processedData.environment.forEach(row => ...)
RECURSIVE AddEnvironment(_, _, _)
AddEnvironment(rows, i, map) ==
    IF i > Len(rows) THEN map
    ELSE LET row == rows[i]
             met == row.old_building_criterion
             at == IndexOfRegion(map, row.region_code)
             base == IF at = 0 THEN DefaultSummaryRow(row.region_code) ELSE map[at]
         IN  AddEnvironment(rows, i + 1,
                 MapSet(map,
                     [base EXCEPT
                         !.environment_old_building_pct = row.old_building_percentage,
                         !.environment_old_building = row.old_building_criterion,
                         !.environment_category_met = met,
                         !.total_categories_met = AddIfMet(@, met)]))

\* where a row goes in rows already sorted, by a sort that puts it before its ties
RECURSIVE InsertBeforeTies(_, _)
InsertBeforeTies(row, sorted) ==
    IF sorted = <<>> THEN <<row>>
    ELSE IF Head(sorted).total_categories_met > row.total_categories_met
         THEN <<Head(sorted)>> \o InsertBeforeTies(row, Tail(sorted))
         ELSE <<row>> \o sorted

\* where a row goes in rows already sorted: after the rows a stable sort keeps before it
RECURSIVE InsertByTotal(_, _)
InsertByTotal(row, sorted) ==
    IF sorted = <<>> THEN <<row>>
    ELSE IF Head(sorted).total_categories_met >= row.total_categories_met
         THEN <<Head(sorted)>> \o InsertByTotal(row, Tail(sorted))
         ELSE <<row>> \o sorted

\* rows.sort((a, b) => b.total_categories_met - a.total_categories_met), a stable sort
RECURSIVE SortByTotal(_, _)
SortByTotal(rows, sorted) ==
    IF rows = <<>> THEN sorted
    ELSE SortByTotal(Tail(rows), InsertByTotal(Head(rows), sorted))

\* summaryRows
SummaryRows(cache) ==
    LET afterPopulation == AddPopulation(cache["population"].rows, 1, <<>>)
        afterIndustry == AddIndustry(cache["industry"].rows, 1, afterPopulation)
        regionsMap == AddEnvironment(cache["environment"].rows, 1, afterIndustry)
    IN  SortByTotal(regionsMap, <<>>)

SummaryPreviewHeaders ==
    <<"Region Code", "Pop. Decline Rate", "Pop. Decline >=20%", "Pop. Consec. Decline",
      "Pop. Category Met", "Ind. Decline Rate", "Ind. Decline >=5%", "Ind. Consec. Decline",
      "Ind. Category Met", "Env. Old Building %", "Env. Old Building >=50%",
      "Env. Category Met", "Total Categories">>

\* the preview row of a summary row
SummaryPreviewRow(row) ==
    ("Region Code" :> row.region_code)
    @@ ("Pop. Decline Rate" :> row.population_decline_rate_pct)
    @@ ("Pop. Decline >=20%" :> row.population_decline_rate)
    @@ ("Pop. Consec. Decline" :> row.population_consecutive_decline)
    @@ ("Pop. Category Met" :> row.population_category_met)
    @@ ("Ind. Decline Rate" :> row.industry_decline_rate_pct)
    @@ ("Ind. Decline >=5%" :> row.industry_decline_rate)
    @@ ("Ind. Consec. Decline" :> row.industry_consecutive_decline)
    @@ ("Ind. Category Met" :> row.industry_category_met)
    @@ ("Env. Old Building %" :> row.environment_old_building_pct)
    @@ ("Env. Old Building >=50%" :> row.environment_old_building)
    @@ ("Env. Category Met" :> row.environment_category_met)
    @@ ("Total Categories" :> row.total_categories_met)

\* a workbook with a sheet for every category
SummarySheetsForAll(cache) ==
    <<"Summary", "Population", "Industry", "Environment">>

\* the sheets of the workbook createSummaryExcelFile writes
SummarySheets(cache) ==
    <<"Summary">>
    \o (IF Len(cache["population"].rows) > 0 THEN <<"Population">> ELSE <<>>)
    \o (IF Len(cache["industry"].rows) > 0 THEN <<"Industry">> ELSE <<>>)
    \o (IF Len(cache["environment"].rows) > 0 THEN <<"Environment">> ELSE <<>>)

\* processAllIndicators without its check of the three slots: a null slot
\* counts as no rows
processAllIndicatorsPartial(cache) ==
    LET summaryRows == SummaryRows(cache)
    IN  Success("Summary analysis completed", "",
            [headers |-> SummaryPreviewHeaders,
             rows |-> [i \in 1..Len(summaryRows) |-> SummaryPreviewRow(summaryRows[i])]],
            SummarySheets(cache))

processAllIndicators(cache) ==
    IF cache["population"].isNull \/ cache["industry"].isNull \/ cache["environment"].isNull
    THEN Failure(MissingMessage(cache))
    ELSE LET summaryRows == SummaryRows(cache)
         IN  Success("Summary analysis completed", "",
                 [headers |-> SummaryPreviewHeaders,
                  rows |-> [i \in 1..Len(summaryRows) |-> SummaryPreviewRow(summaryRows[i])]],
                 SummarySheets(cache))

----------------------------------------------------------------------------
(* The files a caller may supply *)

FileContent(file) ==
    IF file = "f1"
    THEN << <<2015, "A", "to_in_001", Num(100)>>,
            <<2020, "A", "to_in_001", Num(70)>>,
            <<2025, "A", "to_in_001", Num(60)>>,
            <<>>,
            <<2020, "A", "to_fa_010", Num(100)>>,
            <<2025, "A", "to_fa_010", Num(100)>>,
            <<2023, "A", "ho_yr_001", Num(60)>>,
            <<2023, "A", "ho_yr_005", Num(40)>>,
            <<2020, "B", "to_in_001">> >>
    ELSE IF file = "f0"
    THEN << <<2020, "A", "xx_yy_000", Num(5)>>,
            <<2021>>,
            <<>> >>
    ELSE IF file = "f3"
    THEN << <<2022, "C", "zz_zz_000", Num(1)>>,
            <<2022, "C">> >>
    ELSE << <<2025, "A", "to_in_001", Num(90)>>,
            <<2015, "B", "to_in_001", Num(100)>>,
            <<2020, "B", "to_in_001", Text>>,
            <<2015, "B", "to_fa_010", Num(100)>>,
            <<2020, "B", "to_fa_010", Num(90)>>,
            <<2025, "B", "to_fa_010", Num(80)>>,
            <<2025, "A", "to_fa_010", Num(100)>>,
            <<2023, "B", "ho_yr_002", Num(10)>>,
            <<2023, "B", "ho_yr_005", Num(30)>>,
            <<2023, "A", "ho_yr_005", Num(100)>>,
            <<2022, "B", "ho_yr_001", Num(99)>> >>

\* the file lists processFiles is called with
FileLists == {<<>>, <<"f0">>, <<"f1", "f2">>}

\* one set of files in its two orders
OrderLists == {<<"f1", "f2">>, <<"f2", "f1">>}

\* the file lists the uploader hands to the page
PageFileLists == {<<>>, <<"f1", "f2">>}

----------------------------------------------------------------------------
(* processFiles: one invocation, from its call to its result *)

RunIds == 1..MaxInFlight

EmptyCache == [c \in Categories |-> Null]

\* resetPending is history: the categories reset on the page and not run since.
\* pc: "free" (no invocation), "delay" (the 1500 ms wait), "reading" (the await
\* of files[i].text()), "pause" (the 500 ms wait after file i), "final" (the
\* 800 ms wait), "returned" (the promise is resolved with result).
\* seen, afterReset, wrote and faulted are history: the cache and the reset
\* categories a summary invocation met, whether the invocation has stored its
\* rows, and whether a fault was raised in it.
FreeRun ==
    [pc |-> "free", type |-> "none", files |-> <<>>, i |-> 0, allRecords |-> <<>>,
     result |-> Failure(""), seen |-> EmptyCache, afterReset |-> {}, wrote |-> FALSE,
     faulted |-> FALSE]

\* a fault that leaves the function: the promise is rejected
Rethrow(message) == [pc |-> "rejected", result |-> Failure(message)]

\* catch (error) { return { success: false, message: error.message } }
Catch(message) == [pc |-> "returned", result |-> Failure(message)]

HasFreeRun == \E id \in RunIds : runs[id].pc = "free"

FreeRunId == CHOOSE id \in RunIds : runs[id].pc = "free" /\ \A j \in RunIds : j < id => runs[j].pc # "free"

\* getSuccessMessageByIndicator
SuccessMessage(indicatorType) ==
    IF indicatorType = "population" THEN "Population decline analysis completed"
    ELSE IF indicatorType = "industry" THEN "Business decline analysis completed"
    ELSE "Physical environment analysis completed"

\* the sheet of the workbook of a category
SheetName(indicatorType) ==
    IF indicatorType = "population" THEN "Population"
    ELSE IF indicatorType = "industry" THEN "Industry"
    ELSE "Environment"

\* the preview cell of a year: the value and its marker
PreviewCell(row, year) ==
    [value |-> IF Truthy(row, year) THEN row.values[year] ELSE EmptyStr,
     marker |-> IF year \in row.isMax THEN "peak"
                ELSE IF year \in row.declining THEN "declining"
                ELSE ""]

\* previewData of a population or industry run
TrendPreview(rows, years, indicatorType) ==
    [headers |-> <<"region_code">> \o years
                 \o (IF indicatorType = "population"
                     THEN <<"Decline Rate", "Decline >=20%", "Consecutive Decline">>
                     ELSE <<"Decline Rate", "Decline >=5%", "Consec. Decline">>),
     rows |-> [i \in 1..Len(rows) |->
                [region_code |-> rows[i].region_code,
                 cells |-> [k \in 1..Len(years) |-> PreviewCell(rows[i], years[k])],
                 rate |-> IF indicatorType = "population"
                          THEN rows[i].DeclineRate ELSE rows[i].BusinessDeclineRate,
                 conditionA |-> IF indicatorType = "population"
                                THEN rows[i].Decline_20pct ELSE rows[i].BusinessDeclineOver5pct,
                 conditionB |-> IF indicatorType = "population"
                                THEN rows[i].ConsecutiveDecline
                                ELSE rows[i].BusinessConsecDecline]]]

\* previewData of an environment run
EnvironmentPreview(rows) ==
    [headers |-> <<"Region Code", "Total Buildings", "Old Buildings (20+ years)",
                   "Old Building %", "Old Buildings >=50%">>,
     rows |-> rows]

\* a category run that refuses a record list nothing matched
CategoryResultRequiringRows(allRecords, indicatorType) ==
    LET rows == CategoryRows(allRecords, indicatorType)
    IN  IF allRecords = <<>>
        THEN Failure("No matching records")
        ELSE Success(SuccessMessage(indicatorType), "blob:csv",
                IF indicatorType = "environment"
                THEN EnvironmentPreview(rows)
                ELSE TrendPreview(rows, YearsOf(allRecords), indicatorType),
                <<SheetName(indicatorType)>>)

\* the result of a category run that got through
CategoryResult(allRecords, indicatorType) ==
    LET rows == CategoryRows(allRecords, indicatorType)
    IN  Success(SuccessMessage(indicatorType), "blob:csv",
            IF indicatorType = "environment"
            THEN EnvironmentPreview(rows)
            ELSE TrendPreview(rows, YearsOf(allRecords), indicatorType),
            <<SheetName(indicatorType)>>)

\* processFiles testing the file list before the summary selector
StartRunNeedingFiles(files, indicatorType) ==
    IF Len(files) = 0
    THEN [FreeRun EXCEPT !.pc = "returned", !.type = indicatorType, !.files = files,
                         !.result = Failure("No files provided"),
                         !.seen = processedData, !.afterReset = resetPending]
    ELSE IF indicatorType = "summary"
    THEN [FreeRun EXCEPT !.pc = "returned", !.type = indicatorType, !.files = files,
                         !.result = processAllIndicators(processedData),
                         !.seen = processedData, !.afterReset = resetPending]
    ELSE [FreeRun EXCEPT !.pc = "delay", !.type = indicatorType, !.files = files]

\* processFiles up to its first await: the invocation as it stands then
StartRun(files, indicatorType) ==
    IF indicatorType = "summary"
    THEN [FreeRun EXCEPT !.pc = "returned", !.type = indicatorType, !.files = files,
                         !.result = processAllIndicators(processedData),
                         !.seen = processedData, !.afterReset = resetPending]
    ELSE IF Len(files) = 0
    THEN [FreeRun EXCEPT !.pc = "returned", !.type = indicatorType, !.files = files,
                         !.result = Failure("No files provided")]
    ELSE [FreeRun EXCEPT !.pc = "delay", !.type = indicatorType, !.files = files]

\* the 1500 ms wait is over: the loop asks for the text of the first file
AfterDelay(id) ==
    /\ runs[id].pc = "delay"
    /\ runs' = [runs EXCEPT ![id].pc = "reading", ![id].i = 1]
    /\ UNCHANGED <<processedData, pageVars, anaVars>>

\* file.text() resolves: parse, filter, append, then the 500 ms wait
ReadOk(id) ==
    /\ runs[id].pc = "reading"
    /\ runs' = [runs EXCEPT
          ![id].pc = "pause",
          ![id].allRecords =
              @ \o FilterRecords(parseFileContent(FileContent(runs[id].files[runs[id].i])),
                                 runs[id].type)]
    /\ UNCHANGED <<processedData, pageVars, anaVars>>

\* file.text() rejects: the catch of processFiles returns the failure
ReadFault(id) ==
    /\ runs[id].pc = "reading"
    /\ runs' = [runs EXCEPT ![id].pc = Catch("read fault").pc,
                             ![id].result = Catch("read fault").result,
                             ![id].faulted = TRUE]
    /\ UNCHANGED <<processedData, pageVars, anaVars>>

\* the 500 ms wait is over and a file is left: ask for its text
NextFile(id) ==
    /\ runs[id].pc = "pause"
    /\ runs[id].i < Len(runs[id].files)
    /\ runs' = [runs EXCEPT ![id].pc = "reading", ![id].i = @ + 1]
    /\ UNCHANGED <<processedData, pageVars, anaVars>>

\* a store that puts the rows in the three slots
StoreRowsInEverySlot(cache, indicatorType, rows) ==
    [c \in Categories |-> Stored(rows)]

\* processedData.population = outputRows, and the like: the slot of the category
StoreRows(cache, indicatorType, rows) ==
    [cache EXCEPT ![indicatorType] = Stored(rows)]

\* the 500 ms wait is over and no file is left: pivot, analyze, store the rows
\* in processedData, build the CSV, the workbook and the preview; a population
\* or industry run then waits 800 ms, an environment run returns
Analyse(id) ==
    /\ runs[id].pc = "pause"
    /\ runs[id].i = Len(runs[id].files)
    /\ processedData' =
          StoreRows(processedData, runs[id].type,
                    CategoryRows(runs[id].allRecords, runs[id].type))
    /\ runs' = [runs EXCEPT
          ![id].pc = IF runs[id].type = "environment" THEN "returned" ELSE "final",
          ![id].result = CategoryResult(runs[id].allRecords, runs[id].type),
          ![id].wrote = TRUE]
    /\ UNCHANGED <<pageVars, anaVars>>

\* as Analyse, but URL.createObjectURL or the workbook creation throws after
\* the rows are stored: the catch returns the failure
SerializeFault(id) ==
    /\ runs[id].pc = "pause"
    /\ runs[id].i = Len(runs[id].files)
    /\ processedData' =
          StoreRows(processedData, runs[id].type,
                    CategoryRows(runs[id].allRecords, runs[id].type))
    /\ runs' = [runs EXCEPT ![id].pc = Catch("serialize fault").pc,
                             ![id].result = Catch("serialize fault").result,
                             ![id].wrote = TRUE,
                             ![id].faulted = TRUE]
    /\ UNCHANGED <<pageVars, anaVars>>

\* the 800 ms wait is over: processFiles returns its result
AfterFinal(id) ==
    /\ runs[id].pc = "final"
    /\ runs' = [runs EXCEPT ![id].pc = "returned"]
    /\ UNCHANGED <<processedData, pageVars, anaVars>>

\* the steps of one invocation in flight
RunStepOf(id) ==
    \/ AfterDelay(id)
    \/ ReadOk(id)
    \/ ReadFault(id)
    \/ NextFile(id)
    \/ Analyse(id)
    \/ SerializeFault(id)
    \/ AfterFinal(id)

\* the steps of the invocations in flight
RunStep == \E id \in RunIds : RunStepOf(id)

----------------------------------------------------------------------------
(* processFiles called by any caller *)

\* processFiles(files, 'summary')
InvokeSummary(files) ==
    /\ HasFreeRun
    /\ runs' = [runs EXCEPT ![FreeRunId] = StartRun(files, "summary")]
    /\ UNCHANGED <<processedData, pageVars, anaVars>>

\* processFiles(files, 'summary') when the workbook creation throws
InvokeSummaryFault(files) ==
    /\ HasFreeRun
    /\ \A c \in Categories : ~processedData[c].isNull
    /\ runs' = [runs EXCEPT ![FreeRunId] =
                  [StartRun(files, "summary") EXCEPT
                      !.pc = Catch("serialize fault").pc,
                      !.result = Catch("serialize fault").result,
                      !.faulted = TRUE]]
    /\ UNCHANGED <<processedData, pageVars, anaVars>>

\* processFiles(files, indicatorType) of a category
InvokeCategory(files, indicatorType) ==
    /\ HasFreeRun
    /\ runs' = [runs EXCEPT ![FreeRunId] = StartRun(files, indicatorType)]
    /\ UNCHANGED <<processedData, pageVars, anaVars>>

\* the caller takes the result of an invocation that has returned
Deliver(id) ==
    /\ runs[id].pc = "returned"
    /\ runs' = [runs EXCEPT ![id] = FreeRun]
    /\ UNCHANGED <<processedData, pageVars, anaVars>>

InitPage ==
    /\ activeIndicator = "population"
    /\ pageFiles = [c \in Categories |-> <<>>]
    /\ uploaderFiles = [c \in Categories |-> <<>>]
    /\ status = [t \in Indicators |-> "idle"]
    /\ pageResult = [t \in Indicators |-> Failure("")]
    /\ pageError = [t \in Indicators |-> ""]
    /\ resetPending = {}

InitNoAnalysis ==
    /\ inputRecords = <<>>
    /\ outputRows = <<>>
    /\ sortedYears = <<>>
    /\ analysed = "none"

Init ==
    /\ processedData = EmptyCache
    /\ runs = [id \in RunIds |-> FreeRun]
    /\ InitPage
    /\ InitNoAnalysis

Next ==
    \/ \E files \in FileLists : InvokeSummary(files)
    \/ \E files \in FileLists : InvokeSummaryFault(files)
    \/ \E files \in FileLists, c \in Categories : InvokeCategory(files, c)
    \/ RunStep
    \/ \E id \in RunIds : Deliver(id)

Spec == Init /\ [][Next]_vars

\* processFiles called for the categories over one set of files in both orders
NextOrder ==
    \/ \E files \in OrderLists, c \in Categories : InvokeCategory(files, c)
    \/ RunStep
    \/ \E id \in RunIds : Deliver(id)

SpecOrder == Init /\ [][NextOrder]_vars

----------------------------------------------------------------------------
(* The page: Index.tsx *)

\* onValueChange of the tabs
setActiveIndicator(value) ==
    /\ activeIndicator # value
    /\ activeIndicator' = value
    /\ UNCHANGED <<pageFiles, uploaderFiles, status, pageResult, pageError, resetPending,
                   libVars, anaVars>>

\* handleFilesSelected of the page, the onFilesSelected of every uploader
handleFilesSelected(selectedFiles) ==
    /\ activeIndicator \in Categories
    /\ pageFiles' = [pageFiles EXCEPT ![activeIndicator] = selectedFiles]
    /\ IF status[activeIndicator] = "error"
       THEN /\ status' = [status EXCEPT ![activeIndicator] = "idle"]
            /\ pageError' = [pageError EXCEPT ![activeIndicator] = ""]
       ELSE UNCHANGED <<status, pageError>>
    /\ UNCHANGED <<activeIndicator, pageResult, resetPending, libVars, anaVars>>

\* the uploader of the active category tab hands a batch of files to the page;
\* the list the uploader itself shows is followed in SpecUploader only
SelectFiles(selectedFiles) ==
    /\ handleFilesSelected(selectedFiles)
    /\ UNCHANGED uploaderFiles

\* the button that calls handleProcessFiles is on the page
ProcessButtonShown ==
    IF activeIndicator = "summary"
    THEN /\ status["summary"] = "idle"
         /\ \A c \in Categories : status[c] = "success"
    ELSE /\ status[activeIndicator] = "idle"
         /\ Len(pageFiles[activeIndicator]) > 0

\* handleProcessFiles without its button condition and its early return
ProcessFilesCallUnguarded(limit) ==
    /\ Cardinality({id \in RunIds : runs[id].pc # "free"}) < limit
    /\ status' = [status EXCEPT ![activeIndicator] = "processing"]
    /\ runs' = [runs EXCEPT ![FreeRunId] =
                  StartRun(IF activeIndicator = "summary" THEN <<>> ELSE pageFiles[activeIndicator],
                           activeIndicator)]
    /\ resetPending' = resetPending \ {activeIndicator}
    /\ UNCHANGED <<activeIndicator, pageFiles, uploaderFiles, pageResult, pageError,
                   processedData, anaVars>>

\* handleProcessFiles up to its await of processFiles, while fewer than limit
\* invocations are in flight
ProcessFilesCall(limit) ==
    /\ ProcessButtonShown
    /\ Cardinality({id \in RunIds : runs[id].pc # "free"}) < limit
    /\ ~ \/ (activeIndicator # "summary" /\ Len(pageFiles[activeIndicator]) = 0)
         \/ (activeIndicator = "summary" /\ \E c \in Categories : status[c] # "success")
    /\ status' = [status EXCEPT ![activeIndicator] = "processing"]
    /\ runs' = [runs EXCEPT ![FreeRunId] =
                  StartRun(IF activeIndicator = "summary" THEN <<>> ELSE pageFiles[activeIndicator],
                           activeIndicator)]
    /\ resetPending' = resetPending \ {activeIndicator}
    /\ UNCHANGED <<activeIndicator, pageFiles, uploaderFiles, pageResult, pageError,
                   processedData, anaVars>>

handleProcessFiles == ProcessFilesCall(MaxPageRuns)

\* the callback, were a failed result to set the message and leave the status
SettleLeavingStatusOnFailure(id) ==
    /\ runs[id].pc = "returned"
    /\ IF runs[id].result.success
       THEN /\ status' = [status EXCEPT ![runs[id].type] = "success"]
            /\ pageResult' = [pageResult EXCEPT ![runs[id].type] = runs[id].result]
            /\ UNCHANGED pageError
       ELSE /\ pageError' = [pageError EXCEPT ![runs[id].type] = runs[id].result.message]
            /\ UNCHANGED <<status, pageResult>>
    /\ runs' = [runs EXCEPT ![id] = FreeRun]
    /\ UNCHANGED <<activeIndicator, pageFiles, uploaderFiles, resetPending, processedData,
                   anaVars>>

\* the callback of setTimeout(..., 500) after processFiles has returned
Settle(id) ==
    /\ runs[id].pc = "returned"
    /\ IF runs[id].result.success
       THEN /\ status' = [status EXCEPT ![runs[id].type] = "success"]
            /\ pageResult' = [pageResult EXCEPT ![runs[id].type] = runs[id].result]
            /\ UNCHANGED pageError
       ELSE /\ status' = [status EXCEPT ![runs[id].type] = "error"]
            /\ pageError' = [pageError EXCEPT ![runs[id].type] = runs[id].result.message]
            /\ UNCHANGED pageResult
    /\ runs' = [runs EXCEPT ![id] = FreeRun]
    /\ UNCHANGED <<activeIndicator, pageFiles, uploaderFiles, resetPending, processedData,
                   anaVars>>

\* processFiles is executing for the category: called and not yet returned
RunExecuting(c) ==
    \E id \in RunIds : runs[id].type = c /\ runs[id].pc \notin {"free", "returned"}

\* a button that calls handleReset is on the page
ResetButtonShown ==
    IF activeIndicator = "summary"
    THEN \/ status["summary"] = "success"
         \/ \E c \in Categories : status[c] = "success"
    ELSE \/ status[activeIndicator] = "success"
         \/ Len(pageFiles[activeIndicator]) > 0

handleReset ==
    /\ ResetButtonShown
    /\ IF activeIndicator = "summary"
       THEN UNCHANGED <<pageFiles, resetPending>>
       ELSE /\ pageFiles' = [pageFiles EXCEPT ![activeIndicator] = <<>>]
            /\ resetPending' = IF RunExecuting(activeIndicator)
                               THEN resetPending
                               ELSE resetPending \cup {activeIndicator}
    /\ status' = [status EXCEPT ![activeIndicator] = "idle"]
    /\ pageResult' = [pageResult EXCEPT ![activeIndicator] = Failure("")]
    /\ pageError' = [pageError EXCEPT ![activeIndicator] = ""]
    /\ UNCHANGED <<activeIndicator, uploaderFiles, libVars, anaVars>>

NextPage ==
    \/ \E value \in Indicators : setActiveIndicator(value)
    \/ \E selectedFiles \in PageFileLists : SelectFiles(selectedFiles)
    \/ handleProcessFiles
    \/ handleReset
    \/ RunStep
    \/ \E id \in RunIds : Settle(id)

SpecPage == Init /\ [][NextPage]_vars

\* the tabs used while invocations of the page overlap
OverlapTabs == {"population", "industry"}

\* the page on two category tabs, its invocations free to overlap
NextPageOverlap ==
    \/ \E value \in OverlapTabs : setActiveIndicator(value)
    \/ \E selectedFiles \in PageFileLists : SelectFiles(selectedFiles)
    \/ ProcessFilesCall(MaxInFlight)
    \/ handleReset
    \/ RunStep
    \/ \E id \in RunIds : Settle(id)

SpecPageOverlap == Init /\ [][NextPageOverlap]_vars

----------------------------------------------------------------------------
(* The map: MapViewer.tsx, the style of a boundary feature *)

\* fillColor of defaultStyle
DefaultFill == "#cccccc"

\* summaryData.find(item => item.region_code === regionCode): the position of
\* the item found, 0 for undefined; an item without the key region_code gives
\* undefined, which equals no region code
FindRegionData(summaryData, regionCode) ==
    LET Found(i) == /\ "region_code" \in DOMAIN summaryData[i]
                    /\ summaryData[i]["region_code"] = regionCode
    IN  IF \E i \in 1..Len(summaryData) : Found(i)
        THEN CHOOSE i \in 1..Len(summaryData) :
                 Found(i) /\ \A j \in 1..(i - 1) : ~Found(j)
        ELSE 0

\* parseInt(regionData.total_categories_met), NaN for an item without the key
CategoriesCount(regionData) ==
    IF "total_categories_met" \in DOMAIN regionData
    THEN regionData["total_categories_met"]
    ELSE NotANumber

\* style: the fill colour of the feature whose TOT_REG_CD is regionCode
FillColor(summaryData, regionCode) ==
    LET at == FindRegionData(summaryData, regionCode)
    IN  IF at = 0 THEN DefaultFill
        ELSE LET categoriesCount == CategoriesCount(summaryData[at])
             IN  IF categoriesCount = 3 THEN "#ef4444"
                 ELSE IF categoriesCount = 2 THEN "#f97316"
                 ELSE IF categoriesCount = 1 THEN "#facc15"
                 ELSE DefaultFill

\* <MapViewer summaryData={summaryResult?.previewData?.rows} />
MapSummaryData == pageResult["summary"].previewData.rows

----------------------------------------------------------------------------
(* The summary over every cache that category runs can leave *)

Regions == {"A", "B", "C"}

\* the ordered lists of distinct regions a category run can meet
RegionLists ==
    UNION {{r \in [1..n -> Regions] : \A a, b \in 1..n : a # b => r[a] # r[b]} : n \in 0..MaxRows}

\* series of a region as <<year, value>> pairs: steady, one deep drop,
\* two shallow drops, two deep drops
PopulationSeries ==
    {<< <<2015, 100>>, <<2020, 100>>, <<2025, 100>> >>,
     << <<2015, 100>>, <<2025, 70>> >>,
     << <<2015, 100>>, <<2020, 95>>, <<2025, 90>> >>,
     << <<2015, 100>>, <<2020, 70>>, <<2025, 60>> >>}

\* steady, one deep drop, two shallow drops
IndustrySeries ==
    {<< <<2015, 100>>, <<2020, 100>>, <<2025, 100>> >>,
     << <<2015, 100>>, <<2025, 90>> >>,
     << <<2015, 100>>, <<2020, 98>>, <<2025, 97>> >>}

\* building counts of a region in 2023 as <<data code, count>> pairs
BuildingCounts ==
    {<< <<"ho_yr_001", 60>>, <<"ho_yr_005", 40>> >>,
     << <<"ho_yr_002", 10>>, <<"ho_yr_005", 90>> >>}

\* the records of the regions of a list, each with the series picked for it
RECURSIVE TrendRecords(_, _, _, _)
TrendRecords(regionList, pick, dataCode, i) ==
    IF i > Len(regionList) THEN <<>>
    ELSE [k \in 1..Len(pick[i]) |->
             [year |-> pick[i][k][1], region_code |-> regionList[i],
              data_code |-> dataCode, value |-> Num(pick[i][k][2])]]
         \o TrendRecords(regionList, pick, dataCode, i + 1)

RECURSIVE BuildingRecords(_, _, _)
BuildingRecords(regionList, pick, i) ==
    IF i > Len(regionList) THEN <<>>
    ELSE [k \in 1..Len(pick[i]) |->
             [year |-> ReferenceYear, region_code |-> regionList[i],
              data_code |-> pick[i][k][1], value |-> Num(pick[i][k][2])]]
         \o BuildingRecords(regionList, pick, i + 1)

\* the slots a population run, an industry run, an environment run can leave
PopulationSlots ==
    {Null} \cup
    UNION {{Stored(CategoryRows(TrendRecords(r, pick, "to_in_001", 1), "population")) :
               pick \in [1..Len(r) -> PopulationSeries]} : r \in RegionLists}

IndustrySlots ==
    {Null} \cup
    UNION {{Stored(CategoryRows(TrendRecords(r, pick, "to_fa_010", 1), "industry")) :
               pick \in [1..Len(r) -> IndustrySeries]} : r \in RegionLists}

EnvironmentSlots ==
    {Null} \cup
    UNION {{Stored(CategoryRows(BuildingRecords(r, pick, 1), "environment")) :
               pick \in [1..Len(r) -> BuildingCounts]} : r \in RegionLists}

InitSummary ==
    /\ \E p \in PopulationSlots, n \in IndustrySlots, e \in EnvironmentSlots :
          processedData = [c \in Categories |->
                              IF c = "population" THEN p
                              ELSE IF c = "industry" THEN n ELSE e]
    /\ runs = [id \in RunIds |-> FreeRun]
    /\ InitPage
    /\ InitNoAnalysis

\* processFiles([], 'summary') over the cache as it stands
SummaryOverCache ==
    /\ \A id \in RunIds : runs[id].pc = "free"
    /\ InvokeSummary(<<>>)

NextSummary ==
    \/ SummaryOverCache
    \/ \E id \in RunIds : Deliver(id)

SpecSummary == InitSummary /\ [][NextSummary]_vars

----------------------------------------------------------------------------
(* The analyzers on every series of a bounded shape: one region whose cell *)
(* of each year column is absent (the year is another region's), '', not   *)
(* a number, or a number.                                                  *)

\* the i-th year column
YearAt(i) == 1995 + 5 * i

AnalysisYears == [i \in 1..NumYears |-> YearAt(i)]

Absent == [k |-> "absent", n |-> 0]

AnalysisCells == {Absent, Text, Num(0), Num(60), Num(70), Num(80), Num(100)}

\* the pivoted row of region "A" whose cells are c[1], ..., c[NumYears]
RowOfCells(c) ==
    [region_code |-> "A",
     values |-> [y \in {YearAt(i) : i \in {j \in 1..NumYears : c[j] # Absent}} |->
                    c[CHOOSE i \in 1..NumYears : YearAt(i) = y]]]

InitAnalysis ==
    /\ sortedYears = AnalysisYears
    /\ inputRecords = <<>>
    /\ \E c \in [1..NumYears -> AnalysisCells] :
          /\ \E i \in 1..NumYears : c[i] # Absent
          /\ outputRows = <<RowOfCells(c)>>
    /\ analysed = "none"
    /\ processedData = EmptyCache
    /\ runs = [id \in RunIds |-> FreeRun]
    /\ InitPage

RunPopulationAnalysis ==
    /\ analysed = "none"
    /\ outputRows' = analyzePopulationDecline(outputRows, sortedYears)
    /\ analysed' = "population"
    /\ UNCHANGED <<sortedYears, inputRecords, libVars, pageVars>>

RunBusinessAnalysis ==
    /\ analysed = "none"
    /\ outputRows' = analyzeBusinessDecline(outputRows, sortedYears)
    /\ analysed' = "industry"
    /\ UNCHANGED <<sortedYears, inputRecords, libVars, pageVars>>

NextAnalysis ==
    \/ RunPopulationAnalysis
    \/ RunBusinessAnalysis

SpecAnalysis == InitAnalysis /\ [][NextAnalysis]_vars

----------------------------------------------------------------------------
(* analyzeBusinessDecline on rows of more year columns than the peak window *)

LongYears == [i \in 1..NumLongYears |-> 2000 + i]

LongCells == {Absent, Num(95), Num(100)}

\* the pivoted row of region "A" whose cells are c[1], ..., c[NumLongYears]
LongRowOfCells(c) ==
    [region_code |-> "A",
     values |-> [y \in {2000 + i : i \in {j \in 1..NumLongYears : c[j] # Absent}} |->
                    c[y - 2000]]]

InitLong ==
    /\ sortedYears = LongYears
    /\ inputRecords = <<>>
    /\ \E c \in [1..NumLongYears -> LongCells] :
          /\ \E i \in 1..NumLongYears : c[i] # Absent
          /\ outputRows = <<LongRowOfCells(c)>>
    /\ analysed = "none"
    /\ processedData = EmptyCache
    /\ runs = [id \in RunIds |-> FreeRun]
    /\ InitPage

NextLong == RunBusinessAnalysis

SpecLong == InitLong /\ [][NextLong]_vars

----------------------------------------------------------------------------
(* Claims about the analyzers, stated without the analyzers' loops *)

\* the years of a row that have data (a numeric value)
----------------------------------------------------------------------------
(* processEnvironmentData on every short list of parsed records *)

EnvironmentRecordPool ==
    [year : {2022, ReferenceYear},
     region_code : {"A", "B"},
     data_code : {"ho_yr_001", "ho_yr_004", "ho_yr_005", "to_in_001"},
     value : {Num(40), Num(60), Text}]

InitEnvironment ==
    /\ \E n \in 0..MaxRecords : inputRecords \in [1..n -> EnvironmentRecordPool]
    /\ outputRows = <<>>
    /\ sortedYears = <<>>
    /\ analysed = "none"
    /\ processedData = EmptyCache
    /\ runs = [id \in RunIds |-> FreeRun]
    /\ InitPage

\* the filter of processFiles, then the rows of processEnvironmentData
RunEnvironmentAnalysis ==
    /\ analysed = "none"
    /\ outputRows' = CategoryRows(FilterRecords(inputRecords, "environment"), "environment")
    /\ analysed' = "environment"
    /\ UNCHANGED <<sortedYears, inputRecords, libVars, pageVars>>

NextEnvironment == RunEnvironmentAnalysis

SpecEnvironment == InitEnvironment /\ [][NextEnvironment]_vars

----------------------------------------------------------------------------
(* Claims on the cache and the summary *)

\* the summary invocations that have returned
SummaryReturned == {id \in RunIds : runs[id].type = "summary" /\ runs[id].pc = "returned"}

\* the slots a summary invocation found null
NullSlots(id) == {c \in Categories : runs[id].seen[c].isNull}

\* the result carries nothing but the failure
BareFailure(result) ==
    /\ ~result.success
    /\ result.has = {}
    /\ result.blobUrl = ""
    /\ result.previewData.rows = <<>>
    /\ result.excelBlob = <<>>

\* C1: a summary invocation that finds at least one of the three slots never
\* populated returns a failure with no rows, no preview and no artifact,
\* whatever category runs came before it.
C1_SummaryNeedsAllSlots ==
    \A id \in SummaryReturned : NullSlots(id) # {} => BareFailure(runs[id].result)

\* a summary invocation has returned that found one slot populated and another null
C1_Witness ==
    \E id \in SummaryReturned :
        /\ NullSlots(id) # {}
        /\ NullSlots(id) # Categories
        /\ ~runs[id].result.success

\* C2: a category run that is still in progress or that has returned a failure
\* has not written its slot: the slot is written only by a run that returns
\* success, at its very end.
C2_SlotWrittenOnlyAtEndOfSuccess ==
    \A id \in RunIds :
        (runs[id].type \in Categories /\ runs[id].wrote) =>
            (runs[id].pc = "returned" /\ runs[id].result.success)

\* C3: a summary invocation made after a category was reset and before that
\* category is run again returns the missing-prerequisite failure. (The resets
\* counted are those made while processFiles is not executing for the category.)
C3_SummaryAfterResetFails ==
    \A id \in SummaryReturned :
        runs[id].afterReset # {} =>
            /\ ~runs[id].result.success
            /\ runs[id].result.message = MissingMessage(runs[id].seen)

C16_FaultsBecomeFailures ==
    \A id \in RunIds :
        /\ runs[id].pc # "rejected"
        /\ runs[id].faulted => (runs[id].pc = "returned" /\ ~runs[id].result.success)
        /\ (runs[id].pc = "returned" /\ ~runs[id].result.success) =>
              BareFailure(runs[id].result)

\* one invocation has returned after a read fault, another after a fault of
\* the serialization that follows the analysis
C16_Witness ==
    \E a, b \in RunIds :
        /\ runs[a].faulted /\ ~runs[a].wrote /\ runs[a].type \in Categories
        /\ runs[b].faulted /\ runs[b].wrote
        /\ runs[a].pc = "returned" /\ runs[b].pc = "returned"

\* the category invocations over at least one file that returned without a fault
CategoryReturned ==
    {id \in RunIds : /\ runs[id].type \in Categories
                     /\ Len(runs[id].files) >= 1
                     /\ runs[id].pc = "returned"
                     /\ ~runs[id].faulted}

\* C17: a category invocation over at least one readable file succeeds whatever
\* the files hold (short lines, non-numeric values, no matching record): its
\* result is a success with the three artifacts, it has stored its rows and the
\* slot of its category is not null; a summary invocation that met three
\* non-null slots, empty lists included, and did not fault succeeds.
C17_ContentsNeverFail ==
    /\ \A id \in CategoryReturned :
          /\ runs[id].result.success
          /\ runs[id].result.message = SuccessMessage(runs[id].type)
          /\ runs[id].wrote
          /\ ~processedData[runs[id].type].isNull
    /\ \A id \in SummaryReturned :
          (NullSlots(id) = {} /\ ~runs[id].faulted) => runs[id].result.success

\* a run over a file with no matching record has returned a success with no
\* rows, and a summary has succeeded over a cache holding an empty list
C17_Witness ==
    \E a, b \in RunIds :
        /\ a \in CategoryReturned
        /\ runs[a].files = <<"f0">>
        /\ runs[a].result.success
        /\ runs[a].result.previewData.rows = <<>>
        /\ runs[b].type = "summary" /\ runs[b].pc = "returned"
        /\ runs[b].result.success
        /\ \E c \in Categories : runs[b].seen[c].rows = <<>>

\* the result carries a preview with headers, a reference to the delimited
\* text that is not empty, and a workbook
AllProducts(result) ==
    /\ {"previewData", "blobUrl", "excelBlob"} \subseteq result.has
    /\ result.previewData.headers # <<>>
    /\ result.blobUrl # ""
    /\ result.excelBlob # <<>>

\* C18: every invocation that returned a success, whichever of the four
\* selectors it was called with, returned a preview, a non-empty reference to
\* the delimited text and the spreadsheet.
C18_AllProductsReturned ==
    \A id \in RunIds :
        (runs[id].pc = "returned" /\ runs[id].result.success) =>
            AllProducts(runs[id].result)

\* g is f with its elements in another order
IsPermutation(f, g) ==
    /\ Len(f) = Len(g)
    /\ \E p \in [1..Len(f) -> 1..Len(f)] :
          /\ \A i, j \in 1..Len(f) : i # j => p[i] # p[j]
          /\ \A i \in 1..Len(f) : g[i] = f[p[i]]

\* two invocations of one category that returned a success over the same
\* files in different orders
OrderPairs ==
    {pair \in RunIds \X RunIds :
        /\ runs[pair[1]].type \in Categories
        /\ runs[pair[1]].type = runs[pair[2]].type
        /\ runs[pair[1]].pc = "returned" /\ runs[pair[1]].result.success
        /\ runs[pair[2]].pc = "returned" /\ runs[pair[2]].result.success
        /\ runs[pair[1]].files # runs[pair[2]].files
        /\ IsPermutation(runs[pair[1]].files, runs[pair[2]].files)}

\* the verdicts of the regions in the result of a category invocation
Verdicts(id) ==
    LET rows == runs[id].result.previewData.rows
    IN  IF runs[id].type = "environment"
        THEN {<<rows[i].region_code, rows[i].old_building_criterion>> : i \in 1..Len(rows)}
        ELSE {<<rows[i].region_code, rows[i].conditionA, rows[i].conditionB>> :
                 i \in 1..Len(rows)}

\* the records of a file that the filter of a category keeps
MatchingRecords(file, indicatorType) ==
    FilterRecords(parseFileContent(FileContent(file)), indicatorType)

\* two of the files hold different values for the region and the year
ConflictAt(files, indicatorType, regionCode, year) ==
    \E i, j \in 1..Len(files) :
        /\ i # j
        /\ LET ri == MatchingRecords(files[i], indicatorType)
               rj == MatchingRecords(files[j], indicatorType)
           IN  \E m \in 1..Len(ri), n \in 1..Len(rj) :
                   /\ ri[m].region_code = regionCode /\ rj[n].region_code = regionCode
                   /\ ri[m].year = year /\ rj[n].year = year
                   /\ ri[m].value # rj[n].value

\* the regions and the years of the records of the files
RegionsIn(files, indicatorType) ==
    UNION {{MatchingRecords(files[i], indicatorType)[m].region_code :
               m \in 1..Len(MatchingRecords(files[i], indicatorType))} : i \in 1..Len(files)}

YearsIn(files, indicatorType) ==
    UNION {{MatchingRecords(files[i], indicatorType)[m].year :
               m \in 1..Len(MatchingRecords(files[i], indicatorType))} : i \in 1..Len(files)}

ConflictFree(files, indicatorType) ==
    \A regionCode \in RegionsIn(files, indicatorType), year \in YearsIn(files, indicatorType) :
        ~ConflictAt(files, indicatorType, regionCode, year)

\* the value a trend result shows for a region and a year
ShownValue(id, regionCode, year) ==
    LET preview == runs[id].result.previewData
        row == preview.rows[CHOOSE i \in 1..Len(preview.rows) :
                                preview.rows[i].region_code = regionCode]
        years == YearsOf(runs[id].allRecords)
        k == CHOOSE k \in 1..Len(years) : years[k] = year
    IN  row.cells[k].value

\* C19 as stated: the verdicts of a run are the same for every permutation of
\* its file list.
C19_OrderNeverChangesVerdicts ==
    \A pair \in OrderPairs : Verdicts(pair[1]) = Verdicts(pair[2])

\* C19: the order of the files changes at most the value kept for a region
\* and a year that two files give different values for; the old-building
\* verdicts are the same for every order, and the Condition A and Condition B
\* verdicts are the same for every order when no two files give different
\* values for one region and year.
C19_OrderChangesOnlyDuplicates ==
    \A pair \in OrderPairs :
        LET a == pair[1]
            b == pair[2]
            type == runs[a].type
            files == runs[a].files
        IN  /\ {v[1] : v \in Verdicts(a)} = {v[1] : v \in Verdicts(b)}
            /\ type = "environment" => Verdicts(a) = Verdicts(b)
            /\ type # "environment" =>
                  /\ ConflictFree(files, type) => Verdicts(a) = Verdicts(b)
                  /\ \A regionCode \in RegionsIn(files, type), year \in YearsIn(files, type) :
                        ~ConflictAt(files, type, regionCode, year) =>
                            ShownValue(a, regionCode, year) = ShownValue(b, regionCode, year)

\* two industry invocations over files that share a region and year with one
\* value have returned in the two orders, their rows in different orders and a
\* verdict at 'O'
C19_Witness ==
    \E pair \in OrderPairs :
        /\ runs[pair[1]].type = "industry"
        /\ ConflictFree(runs[pair[1]].files, "industry")
        /\ \E i \in 1..Len(MatchingRecords("f1", "industry")),
              j \in 1..Len(MatchingRecords("f2", "industry")) :
                /\ MatchingRecords("f1", "industry")[i].region_code
                      = MatchingRecords("f2", "industry")[j].region_code
                /\ MatchingRecords("f1", "industry")[i].year
                      = MatchingRecords("f2", "industry")[j].year
        /\ runs[pair[1]].result.previewData.rows[1].region_code
              # runs[pair[2]].result.previewData.rows[1].region_code
        /\ \E v \in Verdicts(pair[1]) : v[2] = "O" \/ v[3] = "O"

\* the fill colour of a criteria-met count on the four-step scale
ScaleColour(count) ==
    IF count = 3 THEN "#ef4444"
    ELSE IF count = 2 THEN "#f97316"
    ELSE IF count = 1 THEN "#facc15"
    ELSE "#cccccc"

\* C20: once the page holds a successful summary, the boundary feature of the
\* region of every summary row is filled with the colour of that row's
\* criteria-met count.
C20_MapFillFollowsCount ==
    pageResult["summary"].success =>
        \A i \in 1..Len(MapSummaryData) :
            FillColor(MapSummaryData, MapSummaryData[i]["Region Code"])
                = ScaleColour(MapSummaryData[i]["Total Categories"])

\* the invocations of processFiles for a category that have not returned
Executing(c) ==
    {id \in RunIds : runs[id].type = c /\ runs[id].pc \notin {"free", "returned"}}

\* C21: under the handlers of the page, at most one processFiles run of a
\* category is in flight at any time.
C21_OneRunPerCategory ==
    \A c \in Categories : Cardinality(Executing(c)) <= 1

\* the status of t becomes 'error' in this step
BecomesError(t) == status[t] # "error" /\ status'[t] = "error"

\* t is failed with a message and without a stored result
FailedCleanly(t) == pageError[t] # "" /\ ~pageResult[t].success

\* C22: the status of a category or of the summary becomes 'error' only from
\* 'processing', and whenever it is 'error' there is a message and no result
\* stored for it.
C22_ErrorOnlyFromProcessing ==
    [][\A t \in Indicators :
          /\ BecomesError(t) => status[t] = "processing"
          /\ status'[t] = "error" => FailedCleanly(t)']_vars

\* the status of t becomes 'processing' in this step
BecomesProcessing(t) == status[t] # "processing" /\ status'[t] = "processing"

\* C23: the status of a category becomes 'processing' only while at least one
\* file is selected for it, and the status of the summary only while the three
\* slots of the cache are populated.
C23_RunningNeedsInput ==
    [][\A t \in Indicators :
          BecomesProcessing(t) =>
              IF t = "summary"
              THEN \A c \in Categories : ~processedData[c].isNull
              ELSE Len(pageFiles[t]) >= 1]_vars

\* the summary is 'processing' over three populated slots, after each
\* category was processed from its selected files
C23_Witness ==
    /\ status["summary"] = "processing"
    /\ \A c \in Categories :
          /\ status[c] = "success"
          /\ Len(pageFiles[c]) >= 1
          /\ ~processedData[c].isNull

\* the records processFiles collects from a list of files for a category
RECURSIVE RecordsOfFiles(_, _)
RecordsOfFiles(files, indicatorType) ==
    IF files = <<>> THEN <<>>
    ELSE MatchingRecords(Head(files), indicatorType)
             \o RecordsOfFiles(Tail(files), indicatorType)

\* the invocation stores its rows in this step
Stores(id) == ~runs[id].wrote /\ runs'[id].wrote

\* C24: a slot of the cache changes only in the step in which a run of its own
\* category stores its rows, and then to the rows of that run; the result of a
\* category run is made of the records of its own files, whatever the other
\* slots hold.
C24_DisjointSlots ==
    [][/\ \A c \in Categories :
             processedData'[c] # processedData[c] =>
                 \E id \in RunIds :
                     /\ runs[id].type = c
                     /\ Stores(id)
                     /\ processedData'[c] = Stored(CategoryRows(runs[id].allRecords, c))
       /\ \A id \in RunIds :
             (runs'[id].type \in Categories /\ runs'[id].pc = "returned"
                 /\ runs'[id].result.success) =>
                 runs'[id].result
                     = CategoryResult(RecordsOfFiles(runs'[id].files, runs'[id].type),
                                      runs'[id].type)]_vars

\* two runs of different categories have overlapped and both have stored
\* their rows: each slot holds the rows of its own run
C24_Witness ==
    \E a, b \in RunIds :
        /\ runs[a].type \in Categories /\ runs[b].type \in Categories
        /\ runs[a].type # runs[b].type
        /\ runs[a].pc = "returned" /\ runs[a].wrote /\ ~runs[a].faulted
        /\ runs[b].pc = "final" /\ runs[b].wrote
        /\ Len(runs[a].allRecords) > 0 /\ Len(runs[b].allRecords) > 0
        /\ processedData[runs[a].type] = Stored(CategoryRows(runs[a].allRecords, runs[a].type))
        /\ processedData[runs[b].type] = Stored(CategoryRows(runs[b].allRecords, runs[b].type))
        /\ processedData[runs[a].type] # processedData[runs[b].type]

\* the summary invocations that have returned a summary
SummaryDone == {id \in SummaryReturned : runs[id].result.success}

\* the rows of the summary an invocation returned
Summary(id) == runs[id].result.previewData.rows

\* the region codes of the rows a slot holds
SlotRegions(slot) == {slot.rows[i].region_code : i \in 1..Len(slot.rows)}

\* the row a slot holds for a region
SlotRow(slot, regionCode) ==
    slot.rows[CHOOSE i \in 1..Len(slot.rows) : slot.rows[i].region_code = regionCode]

\* C5: the region codes of the summary rows are exactly the union of the region
\* codes of the three cached results, each region in one row only; a region a
\* category does not hold has that category's flags at 'X'; regions meeting no
\* criterion stay.
C5_SummaryRegionUnion ==
    \A id \in SummaryDone :
        LET rows == Summary(id)
            cache == runs[id].seen
        IN  /\ {rows[i]["Region Code"] : i \in 1..Len(rows)}
                  = UNION {SlotRegions(cache[c]) : c \in Categories}
            /\ \A i, j \in 1..Len(rows) :
                  i # j => rows[i]["Region Code"] # rows[j]["Region Code"]
            /\ \A i \in 1..Len(rows) :
                  /\ rows[i]["Region Code"] \notin SlotRegions(cache["population"]) =>
                        /\ rows[i]["Pop. Decline >=20%"] = "X"
                        /\ rows[i]["Pop. Consec. Decline"] = "X"
                        /\ rows[i]["Pop. Category Met"] = "X"
                  /\ rows[i]["Region Code"] \notin SlotRegions(cache["industry"]) =>
                        /\ rows[i]["Ind. Decline >=5%"] = "X"
                        /\ rows[i]["Ind. Consec. Decline"] = "X"
                        /\ rows[i]["Ind. Category Met"] = "X"
                  /\ rows[i]["Region Code"] \notin SlotRegions(cache["environment"]) =>
                        /\ rows[i]["Env. Old Building >=50%"] = "X"
                        /\ rows[i]["Env. Category Met"] = "X"

\* a summary with a region all three categories hold, a region only the
\* industry result holds, and a region that meets no criterion
C5_Witness ==
    \E id \in SummaryDone :
        LET rows == Summary(id)
            cache == runs[id].seen
        IN  /\ \E i \in 1..Len(rows) :
                  \A c \in Categories : rows[i]["Region Code"] \in SlotRegions(cache[c])
            /\ \E i \in 1..Len(rows) :
                  /\ rows[i]["Region Code"] \in SlotRegions(cache["industry"])
                  /\ rows[i]["Region Code"] \notin SlotRegions(cache["population"])
                  /\ rows[i]["Region Code"] \notin SlotRegions(cache["environment"])
            /\ \E i \in 1..Len(rows) : rows[i]["Total Categories"] = 0

\* the 'O' values among the three category verdicts of a summary row
VerdictsMet(row) ==
    {k \in {"Pop. Category Met", "Ind. Category Met", "Env. Category Met"} : row[k] = "O"}

\* C6: in every summary row the total is an integer from 0 to 3 and is the
\* number of 'O' values among the row's three category verdicts.
C6_TotalCountsVerdicts ==
    \A id \in SummaryDone :
        \A i \in 1..Len(Summary(id)) :
            /\ Summary(id)[i]["Total Categories"] \in 0..3
            /\ Summary(id)[i]["Total Categories"] = Cardinality(VerdictsMet(Summary(id)[i]))

\* a summary with a region that meets all three categories, and a region only
\* two categories hold that meets one
C6_Witness ==
    \E id \in SummaryDone :
        LET rows == Summary(id)
            cache == runs[id].seen
        IN  /\ \E i \in 1..Len(rows) : rows[i]["Total Categories"] = 3
            /\ \E i \in 1..Len(rows) :
                  /\ rows[i]["Total Categories"] = 1
                  /\ Cardinality({c \in Categories :
                        rows[i]["Region Code"] \in SlotRegions(cache[c])}) = 2

\* the region codes of a cache in first-seen order: the population regions,
\* then the industry regions not yet seen, then the environment regions not
\* yet seen
RECURSIVE FirstSeen(_, _)
FirstSeen(codes, seen) ==
    IF codes = <<>> THEN seen
    ELSE IF \E k \in 1..Len(seen) : seen[k] = Head(codes)
         THEN FirstSeen(Tail(codes), seen)
         ELSE FirstSeen(Tail(codes), Append(seen, Head(codes)))

CodesOf(slot) == [i \in 1..Len(slot.rows) |-> slot.rows[i].region_code]

FirstSeenOrder(cache) ==
    FirstSeen(CodesOf(cache["population"]) \o CodesOf(cache["industry"])
                  \o CodesOf(cache["environment"]), <<>>)

PlaceOf(order, regionCode) == CHOOSE k \in 1..Len(order) : order[k] = regionCode

\* C7: the summary rows are in descending order of their total, and rows of
\* equal total are in first-seen order.
C7_SortedByTotalStable ==
    \A id \in SummaryDone :
        LET rows == Summary(id)
            order == FirstSeenOrder(runs[id].seen)
        IN  \A i, j \in 1..Len(rows) :
                i < j =>
                    \/ rows[i]["Total Categories"] > rows[j]["Total Categories"]
                    \/ /\ rows[i]["Total Categories"] = rows[j]["Total Categories"]
                       /\ PlaceOf(order, rows[i]["Region Code"])
                              < PlaceOf(order, rows[j]["Region Code"])

\* a summary of three regions: the last seen has the highest total and comes
\* first, the other two are tied and keep their first-seen order
C7_Witness ==
    \E id \in SummaryDone :
        LET rows == Summary(id)
            order == FirstSeenOrder(runs[id].seen)
        IN  /\ Len(rows) = 3
            /\ rows[1]["Region Code"] = order[3]
            /\ rows[2]["Region Code"] = order[1]
            /\ rows[3]["Region Code"] = order[2]
            /\ rows[2]["Total Categories"] = rows[3]["Total Categories"]
            /\ rows[2]["Total Categories"] > 0

\* C8: the verdict of the demographic and of the economic category of a region
\* is 'O' exactly when the region's Condition A flag or its Condition B flag
\* is 'O'; the verdict of the physical-stock category is 'O' exactly when the
\* old-building criterion is 'O'.
C8_VerdictIsAOrB ==
    \A id \in SummaryDone :
        LET rows == Summary(id)
            cache == runs[id].seen
        IN  \A i \in 1..Len(rows) :
                LET code == rows[i]["Region Code"]
                IN  /\ code \in SlotRegions(cache["population"]) =>
                          (rows[i]["Pop. Category Met"] = "O" <=>
                              \/ SlotRow(cache["population"], code).Decline_20pct = "O"
                              \/ SlotRow(cache["population"], code).ConsecutiveDecline = "O")
                    /\ code \in SlotRegions(cache["industry"]) =>
                          (rows[i]["Ind. Category Met"] = "O" <=>
                              \/ SlotRow(cache["industry"], code).BusinessDeclineOver5pct = "O"
                              \/ SlotRow(cache["industry"], code).BusinessConsecDecline = "O")
                    /\ code \in SlotRegions(cache["environment"]) =>
                          (rows[i]["Env. Category Met"] = "O" <=>
                              SlotRow(cache["environment"], code).old_building_criterion = "O")
                    /\ rows[i]["Pop. Category Met"] \in {"O", "X"}
                    /\ rows[i]["Ind. Category Met"] \in {"O", "X"}
                    /\ rows[i]["Env. Category Met"] \in {"O", "X"}

\* a summary with a region whose demographic verdict is 'O' by Condition A
\* alone and a region whose economic verdict is 'O' by Condition B alone
C8_Witness ==
    \E id \in SummaryDone :
        LET rows == Summary(id)
        IN  /\ \E i \in 1..Len(rows) :
                  /\ rows[i]["Pop. Decline >=20%"] = "O"
                  /\ rows[i]["Pop. Consec. Decline"] = "X"
                  /\ rows[i]["Pop. Category Met"] = "O"
            /\ \E i \in 1..Len(rows) :
                  /\ rows[i]["Ind. Decline >=5%"] = "X"
                  /\ rows[i]["Ind. Consec. Decline"] = "O"
                  /\ rows[i]["Ind. Category Met"] = "O"

----------------------------------------------------------------------------
(* Claims on the analyzers *)

DataYears(row) == {y \in DOMAIN row.values : row.values[y].k = "num"}

ValueAt(row, y) == row.values[y].n

SetMax(S) == CHOOSE x \in S : \A y \in S : y <= x

\* the last RecentWindow years with data
WindowYears(row) ==
    LET D == DataYears(row)
    IN  {y \in D : Cardinality({z \in D : z > y}) < RecentWindow}

\* two drops in a row among the last RecentWindow years with data: y1 < y2 < y3
\* follow one another in the window and the value falls from each to the next
TwoDropsInWindow(row) ==
    LET W == WindowYears(row)
        Follows(y1, y2) == y1 < y2 /\ ~\E z \in W : y1 < z /\ z < y2
    IN  \E y2 \in W :
            /\ \E y1 \in W : Follows(y1, y2) /\ ValueAt(row, y2) < ValueAt(row, y1)
            /\ \E y3 \in W : Follows(y2, y3) /\ ValueAt(row, y3) < ValueAt(row, y2)

Abs(x) == IF x >= 0 THEN x ELSE -x

\* the row of the scenario: 100 in 2000, 70 in 2010, 60 in 2015
ScenarioValues == (2000 :> Num(100)) @@ (2010 :> Num(70)) @@ (2015 :> Num(60))

\* C9: for every demographic row, with P the maximum over the years with data
\* and R the value of the last year with data: when P > 0 and R > 0 the rate
\* written is (R - P) / P * 100 to the nearest hundredth and Condition A is 'O'
\* exactly when 100 R <= 80 P; otherwise the rate is 0 and Condition A is 'X'.
\* The scenario 100@2000, 70@2010, 60@2015 gives peak 2000, -40.00% and 'O'.
C9_PopulationDeclineRate ==
    analysed = "population" =>
        \A i \in 1..Len(outputRows) :
            LET row == outputRows[i]
                has == DataYears(row) # {}
                P == SetMax({ValueAt(row, y) : y \in DataYears(row)})
                R == ValueAt(row, SetMax(DataYears(row)))
            IN  /\ (has /\ P > 0 /\ R > 0) =>
                      /\ 2 * Abs(row.DeclineRate.h * P - 10000 * (R - P)) <= P
                      /\ row.Decline_20pct = "O" <=> 100 * R <= 80 * P
                /\ ~(has /\ P > 0 /\ R > 0) =>
                      /\ row.DeclineRate = Pct(0)
                      /\ row.Decline_20pct = "X"
                /\ row.values = ScenarioValues =>
                      /\ row.isMax = {2000}
                      /\ row.DeclineRate = Pct(-4000)
                      /\ row.Decline_20pct = "O"

\* the scenario has been analysed, with 'O' for Condition A
C9_Witness ==
    /\ analysed = "population"
    /\ outputRows[1].values = ScenarioValues
    /\ outputRows[1].Decline_20pct = "O"

\* the Condition B flag of an analysed row
ConditionB(row) ==
    IF analysed = "population" THEN row.ConsecutiveDecline ELSE row.BusinessConsecDecline

RegionPeakWindow(row) ==
    LET D == DataYears(row)
    IN  {y \in D : Cardinality({z \in D : z > y}) < PeakWindow}

\* the greatest value of a row over a set of its years with data (0 over none)
MaxOver(row, Y) == IF Y = {} THEN 0 ELSE SetMax({ValueAt(row, y) : y \in Y})

\* C11: for every economic row the flagged peak is the peak over the row's own
\* last 10 years with data: when that greatest value is positive, exactly one
\* year is flagged, it is one of those years and it holds that greatest value.
C11_PeakOverRegionWindow ==
    analysed = "industry" =>
        \A i \in 1..Len(outputRows) :
            LET row == outputRows[i]
                W == RegionPeakWindow(row)
                P == MaxOver(row, W)
            IN  P > 0 =>
                    \E y \in W : row.isMax = {y} /\ ValueAt(row, y) = P

\* the value of the last year of a row that has data (0 when none has)
MostRecentValue(row) ==
    IF DataYears(row) = {} THEN 0 ELSE ValueAt(row, SetMax(DataYears(row)))

\* C12: for every economic row, with P the peak over the peak window (the
\* row's last 10 years with data) and R the value of the last year with data:
\* when the peak year is the last year with data the rate is 0 and Condition A
\* is 'X'; when P > 0 and R > 0 Condition A is 'O' exactly when
\* (R - P) / P * 100 <= -5.
C12_BusinessConditionA ==
    analysed = "industry" =>
        \A i \in 1..Len(outputRows) :
            LET row == outputRows[i]
                W == RegionPeakWindow(row)
                P == MaxOver(row, W)
                R == MostRecentValue(row)
            IN  /\ (W # {} /\ \A y \in W \ {SetMax(W)} : ValueAt(row, y) < R) =>
                      /\ row.BusinessDeclineRate = Pct(0)
                      /\ row.BusinessDeclineOver5pct = "X"
                /\ (P > 0 /\ R > 0) =>
                      (row.BusinessDeclineOver5pct = "O" <=> 100 * (R - P) <= -5 * P)

\* the sum of the numeric values of the records of a region whose year is 2023
\* and whose data code is in a set of codes
RECURSIVE SumOfBuckets(_, _, _)
SumOfBuckets(records, regionCode, codes) ==
    IF records = <<>> THEN 0
    ELSE LET record == Head(records)
             counts == /\ record.region_code = regionCode
                       /\ record.year = 2023
                       /\ record.data_code \in codes
                       /\ record.value.k = "num"
         IN  (IF counts THEN record.value.n ELSE 0)
                 + SumOfBuckets(Tail(records), regionCode, codes)

\* the regions with a record of 2023 in the ho_yr_ family
BuildingRegions(records) ==
    {records[i].region_code :
        i \in {j \in 1..Len(records) :
                  /\ records[j].year = 2023
                  /\ records[j].data_code \in {"ho_yr_001", "ho_yr_004", "ho_yr_005"}}}

\* C13: the physical-stock rows are those of the regions with a record of 2023
\* in the ho_yr_ family, one row each; over those records the total is the sum
\* of all bucket values, old is the sum over ho_yr_001..ho_yr_004, the
\* percentage is old / total * 100 to the hundredth (0 when the total is 0)
\* and the verdict is 'O' exactly when the percentage is at least 50; total
\* 100 with 60 old gives 60.00% and 'O'.
C13_OldBuildingShare ==
    analysed = "environment" =>
        /\ {outputRows[i].region_code : i \in 1..Len(outputRows)} = BuildingRegions(inputRecords)
        /\ Len(outputRows) = Cardinality(BuildingRegions(inputRecords))
        /\ \A i \in 1..Len(outputRows) :
              LET row == outputRows[i]
                  total == SumOfBuckets(inputRecords, row.region_code,
                               {"ho_yr_001", "ho_yr_004", "ho_yr_005"})
                  old == SumOfBuckets(inputRecords, row.region_code,
                               {"ho_yr_001", "ho_yr_004"})
              IN  /\ row.total_buildings = total
                  /\ row.old_buildings = old
                  /\ row.old_building_percentage.text = "fixed2"
                  /\ IF total = 0
                     THEN row.old_building_percentage.h = 0
                     ELSE 2 * Abs(row.old_building_percentage.h * total - 10000 * old) <= total
                  /\ row.old_building_criterion = "O" <=> (total > 0 /\ 100 * old >= 50 * total)
                  /\ (total = 100 /\ old = 60) =>
                        /\ row.old_building_percentage = Pct(6000)
                        /\ row.old_building_criterion = "O"

\* a region with 60 old out of 100 and 'O', beside a record of another year
\* or of another code family that would have changed the share
C13_Witness ==
    /\ analysed = "environment"
    /\ \E i \in 1..Len(outputRows) :
          /\ outputRows[i].total_buildings = 100
          /\ outputRows[i].old_buildings = 60
          /\ outputRows[i].old_building_criterion = "O"
          /\ \E j \in 1..Len(inputRecords) :
                /\ inputRecords[j].region_code = outputRows[i].region_code
                /\ inputRecords[j].value.k = "num"
                /\ \/ inputRecords[j].year # 2023
                   \/ inputRecords[j].data_code = "to_in_001"

\* the years of a row whose value is a number other than 0
NonZeroYears(row) == {y \in DataYears(row) : ValueAt(row, y) # 0}

\* the decline rate written into an analysed row
RateOf(row) ==
    IF analysed = "population" THEN row.DeclineRate ELSE row.BusinessDeclineRate

\* C14: for every demographic and economic row whose series has a single
\* non-zero value, the flagged peak year is the year of that value and the
\* decline rate is 0.
C14_SingleValuePeak ==
    analysed \in {"population", "industry"} =>
        \A i \in 1..Len(outputRows) :
            LET row == outputRows[i]
            IN  Cardinality(NonZeroYears(row)) = 1 =>
                    /\ row.isMax = NonZeroYears(row)
                    /\ RateOf(row) = Pct(0)

C25_PeakNeverDeclining ==
    analysed \in {"population", "industry"} =>
        \A i \in 1..Len(outputRows) :
            outputRows[i].isMax \cap outputRows[i].declining = {}

\* the sheets of a workbook
SheetsOf(excelBlob) == {excelBlob[i] : i \in 1..Len(excelBlob)}

SummaryComputed == {id \in SummaryReturned : ~runs[id].faulted}

\* C27: a summary invocation leaves the three slots of the cache as they are,
\* and its result depends on the cache alone: two summary invocations that met
\* the same cache return the same result, whatever files they were given.
C27_SummaryPureInCache ==
    [][/\ \A id \in RunIds :
             (runs[id].pc = "free" /\ runs'[id].type = "summary") =>
                 /\ processedData' = processedData
                 /\ runs'[id].seen = processedData
       /\ \A a, b \in SummaryComputed' :
             runs'[a].seen = runs'[b].seen => runs'[a].result = runs'[b].result]_vars

\* two summary invocations given different file lists have returned the same
\* rows over the same populated cache
C27_Witness ==
    \E a, b \in SummaryComputed :
        /\ runs[a].files # runs[b].files
        /\ runs[a].result.success /\ runs[b].result.success
        /\ Len(Summary(a)) > 0
        /\ Summary(a) = Summary(b)
        /\ runs[a].seen = processedData

----------------------------------------------------------------------------
(* The page from the moment the three categories have been processed, on    *)
(* the population and summary tabs, when every timer fires and every read   *)
(* of a file resolves or rejects                                            *)

\* the categories processed beforehand
DoneBefore == {"population", "industry", "environment"}

LiveTabs == {"population", "summary"}

LiveFiles == <<"f1", "f2">>

\* the file lists the uploader hands to the page on the population tab
LivePageFileLists == {<<>>, <<"f0", "f3">>}

InitPageLive ==
    /\ processedData =
          [c \in Categories |->
              IF c \in DoneBefore
              THEN Stored(CategoryRows(RecordsOfFiles(LiveFiles, c), c))
              ELSE Null]
    /\ runs = [id \in RunIds |-> FreeRun]
    /\ activeIndicator = "environment"
    /\ pageFiles = [c \in Categories |-> IF c \in DoneBefore THEN LiveFiles ELSE <<>>]
    /\ uploaderFiles = pageFiles
    /\ status = [t \in Indicators |-> IF t \in DoneBefore THEN "success" ELSE "idle"]
    /\ pageResult =
          [t \in Indicators |->
              IF t \in DoneBefore
              THEN CategoryResult(RecordsOfFiles(LiveFiles, t), t)
              ELSE Failure("")]
    /\ pageError = [t \in Indicators |-> ""]
    /\ resetPending = {}
    /\ InitNoAnalysis

NextPageLive ==
    \/ \E value \in LiveTabs : setActiveIndicator(value)
    \/ \E selectedFiles \in LivePageFileLists : SelectFiles(selectedFiles)
    \/ handleProcessFiles
    \/ handleReset
    \/ RunStep
    \/ \E id \in RunIds : Settle(id)

SpecPageLive ==
    /\ InitPageLive
    /\ [][NextPageLive]_vars
    /\ \A id \in RunIds : WF_vars(RunStepOf(id))
    /\ \A id \in RunIds : WF_vars(Settle(id))

\* C28: once the status of a category or of the summary is 'processing', it
\* eventually is 'success' or 'error'; and a run is started only by the process
\* button on the tab of its category while the status is 'idle', and no step of
\* a run makes a status 'idle', so after a failure none starts until a handler
\* of the page has changed the status.
C28_RunsEndAndNoRetry ==
    /\ \A t \in Indicators :
          (status[t] = "processing") ~> (status[t] \in {"success", "error"})
    /\ [][\A id \in RunIds :
             (runs[id].pc = "free" /\ runs'[id].pc # "free") =>
                 /\ activeIndicator = runs'[id].type
                 /\ status[runs'[id].type] = "idle"
                 /\ status'[runs'[id].type] = "processing"]_vars
    /\ [][\A t \in Indicators :
             (status[t] # "idle" /\ status'[t] = "idle") => runs' = runs]_vars

\* a population run has ended in 'error' with its message and a summary run in
\* 'success' with its result
C28_Witness ==
    /\ status["population"] = "error"
    /\ pageError["population"] # ""
    /\ status["summary"] = "success"
    /\ pageResult["summary"].success
    /\ \A id \in RunIds : runs[id].pc = "free"

----------------------------------------------------------------------------
(* The uploader of a category tab: FileUploader.tsx, with the page's list   *)
(* of the tab; the files are .txt files within maxFiles, which              *)
(* validateFiles accepts                                                    *)

\* the names of the files the user has at hand
UploaderNames == {"f0", "f1", "f2", "f3"}

\* the batches dropped on the uploader or chosen in its dialog
UploadBatches == {<<>>, <<"f0">>, <<"f3">>, <<"f1", "f2">>, <<"f2", "f0">>}

RECURSIVE UniqueByName(_)
\* Array.from(new Map(combined.map(file => [file.name, file])).values()):
\* each name once, at the place of its first occurrence
UniqueByName(combined) ==
    IF combined = <<>>
    THEN <<>>
    ELSE LET front == UniqueByName(SubSeq(combined, 1, Len(combined) - 1))
             file == combined[Len(combined)]
         IN  IF \E i \in 1..Len(front) : front[i] = file
             THEN front
             ELSE Append(front, file)

\* processFiles of the uploader: the batch joins the list shown, and the batch
\* alone is handed to the page
FileUploader_processFiles(fileList) ==
    /\ activeIndicator \in Categories
    /\ uploaderFiles' = [uploaderFiles EXCEPT
                            ![activeIndicator] = UniqueByName(@ \o fileList)]
    /\ handleFilesSelected(fileList)

\* removeFile of the uploader: the list shown without the file, handed to the page
removeFile(fileName) ==
    /\ activeIndicator \in Categories
    /\ \E i \in 1..Len(uploaderFiles[activeIndicator]) :
          uploaderFiles[activeIndicator][i] = fileName
    /\ LET filtered == SelectSeq(uploaderFiles[activeIndicator],
                                 LAMBDA file : file # fileName)
       IN  /\ uploaderFiles' = [uploaderFiles EXCEPT ![activeIndicator] = filtered]
           /\ handleFilesSelected(filtered)

NextUploader ==
    \/ \E fileList \in UploadBatches : FileUploader_processFiles(fileList)
    \/ \E fileName \in UploaderNames : removeFile(fileName)
    \/ handleReset

SpecUploader == Init /\ [][NextUploader]_vars

\* C29: on every category tab the list the page holds, the one handed to
\* processFiles, is the list the tab's uploader shows.
C29_PageListIsShownList ==
    \A c \in Categories : pageFiles[c] = uploaderFiles[c]

----------------------------------------------------------------------------
(* The analyzers on series whose decline from the peak lies next to the     *)
(* thresholds of Condition A                                                *)

BoundaryCells == {Absent, Num(100000), Num(80004), Num(80000), Num(95004)}

InitBoundary ==
    /\ sortedYears = AnalysisYears
    /\ inputRecords = <<>>
    /\ \E c \in [1..NumYears -> BoundaryCells] :
          /\ \E i \in 1..NumYears : c[i] # Absent
          /\ outputRows = <<RowOfCells(c)>>
    /\ analysed = "none"
    /\ processedData = EmptyCache
    /\ runs = [id \in RunIds |-> FreeRun]
    /\ InitPage

SpecBoundary == InitBoundary /\ [][NextAnalysis]_vars

\* the Condition A flag of an analysed row
ConditionA(row) ==
    IF analysed = "population" THEN row.Decline_20pct ELSE row.BusinessDeclineOver5pct

\* the threshold of Condition A, in hundredths of a percent
ThresholdWritten == IF analysed = "population" THEN -2000 ELSE -500

\* C30 as stated: in every demographic and economic row the Condition A flag
\* is 'O' exactly when the rate written in the row, rounded to two decimals,
\* is at most -20.00% (demographic) or -5.00% (economic).
C30_FlagAgreesWithWrittenRate ==
    analysed \in {"population", "industry"} =>
        \A i \in 1..Len(outputRows) :
            ConditionA(outputRows[i]) = "O" <=> RateOf(outputRows[i]).h <= ThresholdWritten

\* C30 amended: the Condition A flag is 'O' exactly when the rate before
\* rounding is at most -20 (demographic) or -5 (economic); so a row whose
\* written rate is below the threshold has 'O', a row whose written rate is
\* above it has 'X', and a row written -20.00% or -5.00% has either.
C30_FlagFollowsUnroundedRate ==
    analysed \in {"population", "industry"} =>
        \A i \in 1..Len(outputRows) :
            LET row == outputRows[i]
            IN  /\ ConditionA(row) = "O" <=>
                       100 * row.declineRate.num <= ThresholdWritten * row.declineRate.den
                /\ RateOf(row).h < ThresholdWritten => ConditionA(row) = "O"
                /\ RateOf(row).h > ThresholdWritten => ConditionA(row) = "X"

\* an economic row written -5.00% with 'X': 95004 after a peak of 100000
C30_Witness ==
    /\ analysed = "industry"
    /\ outputRows[1].declineRate = [num |-> 100 * (95004 - 100000), den |-> 100000]
    /\ outputRows[1].BusinessDeclineRate = Pct(-500)
    /\ outputRows[1].BusinessDeclineOver5pct = "X"

====
